---- MODULE Spec2Model ----
(***************************************************************************)
(* A model of the vane_web3 node: MainServiceWorker (node/src/lib.rs) and  *)
(* TxProcessingWorker (node/src/tx_processing.rs).                         *)
(*                                                                         *)
(* One node is modelled with its two long-lived tasks:                     *)
(*   - the orchestrator task, handle_incoming_rpc_tx_updates, which takes  *)
(*     transaction updates from the RPC layer and dispatches on status;    *)
(*   - the swarm task, handle_swarm_event_messages, which takes Request    *)
(*     and Response events from the p2p swarm.                             *)
(* The RPC layer, the p2p worker and the remote directory are the          *)
(* environment.  The local store and the channels are assumed to work      *)
(* (their operations return Ok); building a transaction may fail.          *)
(*                                                                         *)
(* Every component is behind a tokio::sync::Mutex, which is not reentrant. *)
(* A guard made in the scrutinee of `if let`, `match` or `while let` is a  *)
(* temporary that lives to the end of that expression (Rust editions up to *)
(* 2021: through the else block too), so the task holds the lock in the    *)
(* blocks that follow.  A handler runs as one step; the locks it holds at  *)
(* each suspension point of the step are logged in `awaits`.               *)
(***************************************************************************)
EXTENDS Integers, Sequences, FiniteSets, TLC

VARIABLES
    user_rpc_update_recv_channel, \* RPC -> orchestrator, FIFO of TxStateMachine
    swarm_recv_channel,           \* swarm -> swarm task, FIFO of SwarmMessage
    rpc_sender_channel,           \* node -> RPC, FIFO of TxStateMachine
    p2p_command_channel,          \* node -> p2p worker, FIFO of NetworkCommand
    saved_peers,                  \* local store, table saved_peers
    tx_history,                   \* local store, table tx_history (append-only)
    remote_peers,                 \* the remote directory (airtable)
    orch_pc,                      \* position of the orchestrator task
    orch_txn,                     \* txn_inner of the handler the orchestrator is blocked in
    swarm_pc,                     \* position of the swarm task
    swarm_closed,                 \* the sending half of swarm_recv_channel has been dropped
    submit_calls,                 \* log: transactions whose handler went on to submit_tx
    recv_verified,                \* log: transactions whose Response passed receiver validation
    last_status,                  \* log: the status of the update the orchestrator took last
    remote_calls,                 \* log: number of list_all_peers calls made
    awaits,                       \* log: the suspension points and log lines of the task step taken last
    inputs                        \* number of messages the environment has produced

vars == << user_rpc_update_recv_channel, swarm_recv_channel, rpc_sender_channel,
           p2p_command_channel, saved_peers, tx_history, remote_peers,
           orch_pc, orch_txn, swarm_pc, swarm_closed, submit_calls,
           recv_verified, last_status, remote_calls, awaits, inputs >>

(***************************************************************************)
(* Bounds of the model.                                                    *)
(***************************************************************************)
\* number of messages (RPC updates and swarm events) the environment produces
MaxInputs == 2

(***************************************************************************)
(* Program constants.                                                      *)
(***************************************************************************)
\* capacity of the two RPC channels and of the p2p command channel
RpcChannelCapacity == 10
\* capacity of the channel between the swarm and the swarm task
SwarmChannelCapacity == 256
\* chain id that create_tx gives a Bnb transaction
BnbChainId == 56

(***************************************************************************)
(* Data: Option, addresses, hashes, signatures.                            *)
(***************************************************************************)
\* Option<T>: None is the empty sequence, Some(x) the one-element sequence
NoneV == << >>
Some(x) == << x >>
IsSome(o) == o # NoneV
Unwrap(o) == o[1]

Addresses == { "0xA", "0xB" }
\* the addresses that parse into a public key (EcdsaPublic::from_str, EdPublic::from_str)
KeyAddresses == Addresses
Networks == { "Ethereum", "Bnb", "Solana", "Polkadot" }
Amounts == { 1000 }
TxHashes == { "0xdeadbeef" }
ChainErrors == { "rpc error" }

Genesis == "Genesis"
ReceiverConfirmation == "ReceiverConfirmation"
RecvAddrConfirmed == "RecvAddrConfirmed"
RecvAddrFailed == "RecvAddrFailed"
NetConfirmed == "NetConfirmed"
SenderConfirmed == "SenderConfirmed"
SenderConfirmationFailed == "SenderConfirmationFailed"
TxSubmissionPassed == "TxSubmissionPassed"
TxSubmissionFailed == "TxSubmissionFailed"

TxStatus == { Genesis, ReceiverConfirmation, RecvAddrConfirmed, RecvAddrFailed,
              NetConfirmed, SenderConfirmed, SenderConfirmationFailed,
              TxSubmissionPassed, TxSubmissionFailed }
TerminalStatus == { RecvAddrFailed, SenderConfirmationFailed,
                    TxSubmissionPassed, TxSubmissionFailed }

\* String::as_bytes
as_bytes(s) == << s >>
\* Blake2Hasher::hash and keccak_256: injective on the byte strings of the model
Blake2_256(bytes) == << "blake2_256", bytes >>
keccak_256(bytes) == << "keccak_256", bytes >>

\* the multi_id of a sender and a receiver address, as validate_multi_id recomputes it
MultiIdOf(sender, receiver) == Blake2_256(as_bytes(sender) \o as_bytes(receiver))

\* A signature is the bytes a signer's key produced over a digest; alg fixes its
\* length (65 bytes for ecdsa, 64 for ed25519).
EcdsaSign(key, msg) == [ alg |-> "ecdsa", signer |-> key, digest |-> keccak_256(as_bytes(msg)) ]
EdSign(key, msg) == [ alg |-> "ed25519", signer |-> key, digest |-> as_bytes(msg) ]
Signatures == { EcdsaSign(k, m) : k \in Addresses, m \in Addresses }
              \cup { EdSign(k, m) : k \in Addresses, m \in Addresses }


(***************************************************************************)
(* TxStateMachine and the records around it.                               *)
(***************************************************************************)
\* the fields that identify a transaction across its updates
TxCore(tx) == [ sender_address |-> tx.sender_address, receiver_address |-> tx.receiver_address,
                multi_id |-> tx.multi_id, network |-> tx.network, amount |-> tx.amount ]

\* TxStateMachine::recv_confirmation_passed
recv_confirmation_passed(tx) == [ tx EXCEPT !.status = RecvAddrConfirmed ]
\* a mutation of recv_confirmation_failed: the rejected signature is dropped as well
recv_confirmation_failed_drops_signature(tx) ==
    [ tx EXCEPT !.status = RecvAddrFailed, !.recv_signature = NoneV ]
\* TxStateMachine::recv_confirmation_failed
recv_confirmation_failed(tx) == [ tx EXCEPT !.status = RecvAddrFailed ]
\* a mutation of sender_confirmation_failed: a hash is attached to the rejected update
sender_confirmation_failed_sets_hash(tx) ==
    [ tx EXCEPT !.status = SenderConfirmationFailed, !.tx_hash = Some(<< "hash", 0 >>) ]
\* TxStateMachine::sender_confirmation_failed
sender_confirmation_failed(tx) == [ tx EXCEPT !.status = SenderConfirmationFailed ]
\* TxStateMachine::tx_submission_passed
tx_submission_passed(tx, tx_hash) ==
    [ tx EXCEPT !.status = TxSubmissionPassed, !.tx_hash = Some(tx_hash) ]
\* TxStateMachine::tx_submission_failed
tx_submission_failed(tx, reason) ==
    [ tx EXCEPT !.status = TxSubmissionFailed, !.failure_reason = Some(reason) ]

\* DbTxStateMachine, a row of tx_history
DbTxStateMachine(tx_hash, amount, network, success) ==
    [ tx_hash |-> tx_hash, amount |-> amount, network |-> network, success |-> success ]

\* The wire codec of TxStateMachine: the fields in declaration order; an enum is written
\* as the index of its variant, an Option as a presence tag followed by the value when
\* present, a variable-length value as a length prefix followed by its content, a
\* fixed-size value as it is.  The wire is a sequence of items << kind, value >>.
StatusOrder == << Genesis, ReceiverConfirmation, RecvAddrConfirmed, RecvAddrFailed,
                  NetConfirmed, SenderConfirmed, SenderConfirmationFailed,
                  TxSubmissionPassed, TxSubmissionFailed >>
NetworkOrder == << "Polkadot", "Ethereum", "Bnb", "Solana" >>
Field(name, kind, vec, opt) == [ name |-> name, kind |-> kind, vec |-> vec, opt |-> opt ]
Schema ==
    << Field("sender_address", "str", TRUE, FALSE),
       Field("receiver_address", "str", TRUE, FALSE),
       Field("multi_id", "h256", FALSE, FALSE),
       Field("network", "network", FALSE, FALSE),
       Field("amount", "u128", FALSE, FALSE),
       Field("call_payload", "payload", TRUE, TRUE),
       Field("signed_call_payload", "sig", TRUE, TRUE),
       Field("recv_signature", "sig", TRUE, TRUE),
       Field("status", "status", FALSE, FALSE),
       Field("inbound_req_id", "u64", FALSE, TRUE),
       Field("outbound_req_id", "u64", FALSE, TRUE),
       Field("tx_hash", "hash", FALSE, TRUE),
       Field("failure_reason", "msg", TRUE, TRUE) >>

IndexIn(order, v) == CHOOSE i \in DOMAIN order : order[i] = v
\* a value as it is written, and read back
ToWire(kind, v) ==
    IF kind = "status" THEN IndexIn(StatusOrder, v)
    ELSE IF kind = "network" THEN IndexIn(NetworkOrder, v)
    ELSE v
WireValid(kind, w) ==
    IF kind = "status" THEN w \in DOMAIN StatusOrder
    ELSE IF kind = "network" THEN w \in DOMAIN NetworkOrder
    ELSE TRUE
FromWire(kind, w) ==
    IF kind = "status" THEN StatusOrder[w]
    ELSE IF kind = "network" THEN NetworkOrder[w]
    ELSE w

EncodePlain(v, ty) ==
    IF ty.vec THEN << << "compact", 1 >>, << ty.kind, ToWire(ty.kind, v) >> >>
    ELSE << << ty.kind, ToWire(ty.kind, v) >> >>

\* a mutation of EncodeOption: an absent value is written as nothing at all
EncodeOptionUntagged(o, ty) ==
    IF IsSome(o) THEN << << "tag", 1 >> >> \o EncodePlain(Unwrap(o), ty) ELSE << >>

EncodeOption(o, ty) ==
    IF IsSome(o) THEN << << "tag", 1 >> >> \o EncodePlain(Unwrap(o), ty)
    ELSE << << "tag", 0 >> >>

EncodeField(v, ty) == IF ty.opt THEN EncodeOption(v, ty) ELSE EncodePlain(v, ty)

RECURSIVE EncodeFields(_, _)
EncodeFields(tx, k) ==
    IF k > Len(Schema) THEN << >>
    ELSE EncodeField(tx[Schema[k].name], Schema[k]) \o EncodeFields(tx, k + 1)

\* Encode::encode
Encode(tx) == EncodeFields(tx, 1)

\* bytes that are not the encoding of a TxStateMachine
GarbageBytes == << << "tag", 7 >> >>

ParseFailed == [ ok |-> FALSE, next |-> 0 ]
ItemIs(d, i, kind) == i <= Len(d) /\ d[i][1] = kind
ParsePlain(d, i, ty) ==
    LET at == IF ty.vec THEN i + 1 ELSE i
    IN  IF /\ ty.vec => (ItemIs(d, i, "compact") /\ d[i][2] = 1)
           /\ ItemIs(d, at, ty.kind)
           /\ WireValid(ty.kind, d[at][2])
        THEN [ ok |-> TRUE, v |-> FromWire(ty.kind, d[at][2]), next |-> at + 1 ]
        ELSE ParseFailed
ParseOption(d, i, ty) ==
    IF ~ItemIs(d, i, "tag") THEN ParseFailed
    ELSE IF d[i][2] = 0 THEN [ ok |-> TRUE, v |-> NoneV, next |-> i + 1 ]
    ELSE IF d[i][2] = 1
         THEN LET r == ParsePlain(d, i + 1, ty)
              IN  IF r.ok THEN [ ok |-> TRUE, v |-> Some(r.v), next |-> r.next ]
                  ELSE ParseFailed
    ELSE ParseFailed
ParseField(d, i, ty) == IF ty.opt THEN ParseOption(d, i, ty) ELSE ParsePlain(d, i, ty)

\* the values of the fields k.. read from position i on, after those in acc; None when
\* the input is not an encoding
RECURSIVE ParseFields(_, _, _, _)
ParseFields(d, i, k, acc) ==
    IF k > Len(Schema)
    THEN Some(acc)
    ELSE CHOOSE rest \in { IF r.ok THEN ParseFields(d, r.next, k + 1, Append(acc, r.v))
                                   ELSE NoneV : r \in { ParseField(d, i, Schema[k]) } } : TRUE

\* Decode::decode returns Ok
Decodes(data) == IsSome(ParseFields(data, 1, 1, << >>))
\* Decode::decode
Decode(data) ==
    CHOOSE tx \in
        { [ sender_address |-> vals[1], receiver_address |-> vals[2], multi_id |-> vals[3],
            network |-> vals[4], amount |-> vals[5], call_payload |-> vals[6],
            signed_call_payload |-> vals[7], recv_signature |-> vals[8], status |-> vals[9],
            inbound_req_id |-> vals[10], outbound_req_id |-> vals[11], tx_hash |-> vals[12],
            failure_reason |-> vals[13] ] :
          vals \in { Unwrap(ParseFields(data, 1, 1, << >>)) } } : TRUE

\* DefaultHasher over a request id
HashId(id) == << "DefaultHasher", id >>

(***************************************************************************)
(* TxProcessingWorker (tx_processing.rs).                                  *)
(***************************************************************************)
\* EcdsaPublic::from_str / EdPublic::from_str: the key of an address, if it parses
PublicFromStr(addr) == IF addr \in KeyAddresses THEN Some(addr) ELSE NoneV

\* EcdsaSignature::from_slice / EdSignature::from_slice: the length check
SignatureFromSlice(alg, sig) == IF sig.alg = alg THEN Some(sig) ELSE NoneV

\* Signature::verify: the signature was made by the key of `public` over `digest`
Verify(sig, digest, public) == sig.signer = public /\ sig.digest = digest

\* EcdsaSignature::recover: the key that made `sig`, when `sig` is over `digest`
Recover(sig, digest) == IF sig.digest = digest THEN Some(sig.signer) ELSE NoneV

\* the outcome of validate_receiver_sender_address: "Ok", "Err", or "Panic" (todo!())
validate_receiver_sender_address(tx, who) ==
    LET signature == IF who = "Receiver" THEN tx.recv_signature ELSE tx.signed_call_payload
        msg == IF who = "Receiver" THEN tx.receiver_address ELSE tx.sender_address
    IN  IF ~IsSome(signature) THEN "Err"
        ELSE
          LET bytes == Unwrap(signature)
              \* both roles take the public key from receiver_address
              public == PublicFromStr(tx.receiver_address)
          IN  CASE tx.network = "Polkadot" -> "Panic"
                [] tx.network \in { "Ethereum", "Bnb" } ->
                     LET hashed_msg == keccak_256(as_bytes(msg))
                         sig == SignatureFromSlice("ecdsa", bytes)
                     IN  IF ~IsSome(public) THEN "Err"
                         ELSE IF ~IsSome(sig) THEN "Err"
                         ELSE IF Verify(Unwrap(sig), hashed_msg, Unwrap(public))
                              THEN IF Recover(Unwrap(sig), hashed_msg) = public
                                   THEN "Ok" ELSE "Err"
                              ELSE "Err"
                [] tx.network = "Solana" ->
                     LET sig == SignatureFromSlice("ed25519", bytes)
                     IN  IF ~IsSome(public) THEN "Err"
                         ELSE IF ~IsSome(sig) THEN "Err"
                         ELSE IF Verify(Unwrap(sig), as_bytes(msg), Unwrap(public))
                              THEN "Ok" ELSE "Err"

validate_multi_id(txn) ==
    LET post_multi_id == Blake2_256(as_bytes(txn.sender_address)
                                    \o as_bytes(txn.receiver_address))
    IN  post_multi_id = txn.multi_id

\* the unsigned EIP-7702 envelope create_tx builds and its RLP encoding
UnsignedTxOf(tx) ==
    [ to |-> tx.receiver_address, value |-> tx.amount,
      chain_id |-> IF tx.network = "Bnb" THEN Some(BnbChainId) ELSE NoneV ]
RlpEncode(envelope) == << "rlp", envelope >>
RlpDecodes(bytes) == Len(bytes) = 2 /\ bytes[1] = "rlp"

\* a mutation of create_tx: the envelope is built for every network
create_tx_fills_every_network(tx) ==
    { [ res |-> "Ok",
        tx |-> [ tx EXCEPT !.call_payload = Some(RlpEncode(UnsignedTxOf(tx))) ] ],
      [ res |-> "Err", tx |-> tx ] }

\* the outcomes of create_tx: Ok(tx with call_payload), Err (the builder refused),
\* or Panic (todo!() for Solana and Polkadot; Address::from_slice for an Ethereum or
\* Bnb receiver_address that is not 20 bytes long)
create_tx(tx) ==
    IF tx.network \in { "Ethereum", "Bnb" }
    THEN { [ res |-> "Ok",
             tx |-> [ tx EXCEPT !.call_payload = Some(RlpEncode(UnsignedTxOf(tx))) ] ],
           [ res |-> "Err", tx |-> tx ],
           [ res |-> "Panic", tx |-> tx ] }
    ELSE { [ res |-> "Panic", tx |-> tx ] }

\* TxProcessingWorker::new is called with (Bnb, Ethereum, Solana) and destructures
\* its argument as (_solana, eth, bnb)
chain_networks == << "Bnb", "Ethereum", "Solana" >>
\* ChainSupported::url
Url(network) == << "url", network >>
eth_client == [ endpoint |-> Url(chain_networks[2]) ]
bnb_client == [ endpoint |-> Url(chain_networks[3]) ]

\* what submit_tx does before it calls the chain: "Panic" (todo!()), an error
\* message, or "Send" when it reaches send_raw_transaction
submit_tx_prepare(tx) ==
    IF tx.network \notin { "Ethereum", "Bnb" } THEN "Panic"
    ELSE IF ~IsSome(tx.signed_call_payload) THEN "sender did not signed the tx payload"
    ELSE IF ~IsSome(tx.call_payload) THEN "call payload not found"
    ELSE IF ~RlpDecodes(Unwrap(tx.call_payload)) THEN "failed to decode eth EIP7702 tx payload"
    ELSE IF Unwrap(tx.signed_call_payload).alg # "ecdsa" THEN "failed to decode tx siganture"
    ELSE "Send"

\* the send_raw_transaction call submit_tx makes for tx
raw_transaction(tx) ==
    [ client |-> IF tx.network = "Ethereum" THEN eth_client ELSE bnb_client,
      encoded_signed_tx |-> << Unwrap(tx.call_payload), Unwrap(tx.signed_call_payload) >>,
      tx |-> TxCore(tx) ]


(***************************************************************************)
(* Peer directory and p2p commands.                                        *)
(***************************************************************************)
\* the entry of the remote directory for the node that owns "0xB"
DiscoveryB == [ peer_id |-> Some("peerB"), multi_addr |-> Some("/ip4/10.0.0.2/tcp/4000"),
                account_ids |-> { "0xB" } ]
\* PeerRecord::from(Discovery)
PeerRecordFrom(discovery) ==
    [ node_id |-> Unwrap(discovery.peer_id), multi_addr |-> Unwrap(discovery.multi_addr),
      account_ids |-> discovery.account_ids ]

\* NetworkCommand, as the p2p network service queues it for the p2p worker
NetworkCommand(cmd, peer_id, multi_addr, id, data) ==
    [ cmd |-> cmd, peer_id |-> peer_id, multi_addr |-> multi_addr, id |-> id, data |-> data ]
\* P2pNetworkService::dial_to_peer_id
dial_to_peer_id(multi_addr, peer_id) ==
    NetworkCommand("Dial", Some(peer_id), Some(multi_addr), NoneV, NoneV)
\* P2pNetworkService::send_request
send_request(txn, peer_id, multi_addr) ==
    NetworkCommand("SendRequest", Some(peer_id), Some(multi_addr), NoneV, Some(Encode(txn)))
\* P2pNetworkService::send_response
send_response(id, txn) ==
    NetworkCommand("SendResponse", NoneV, NoneV, Some(id), Some(Encode(txn)))

\* Airtable::list_all_peers: the entries of the remote directory
list_all_peers == remote_peers

\* a mutation of get_saved_user_peers: the lookup never finds the account
get_saved_user_peers_miss(account_id) == {}

\* DbWorker::get_saved_user_peers: the saved peers that own the account
get_saved_user_peers(account_id) == { acc \in saved_peers : account_id \in acc.account_ids }

(***************************************************************************)
(* Locks and suspension points.                                            *)
(***************************************************************************)
\* a suspension point of a task: a lock it requests or a call it awaits, with the locks
\* it holds there
Await(task, kind, what, held) == [ task |-> task, kind |-> kind, what |-> what, held |-> held ]

\* a mutation of txn_guard: the guard stays bound to the end of the handler
txn_guard_bound == { "txn" }
\* the guard of the TxStateMachine after the statement that made it: `let txn_guard =
\* txn.lock().await` is moved into new_tx_state_from_mutex on the next line, which
\* returns an owned TxStateMachine, and every other `txn.lock().await` is a temporary
\* of its statement or a local of a block that only clones a field
txn_guard == {}

\* the guard of `while let Some(txn) = self.user_rpc_update_recv_channel.lock().await
\* .recv().await` lives through the loop body
OrchHeld(held) == held \cup { "user_rpc_update_recv_channel" } \cup txn_guard
OrchLock(lock, held) == Await("orchestrator", "lock", lock, OrchHeld(held))
OrchCall(call, held) == Await("orchestrator", "call", call, OrchHeld(held))
\* a line the orchestrator writes to the log, kept with the suspension points of the step
OrchLog(message) == Await("orchestrator", "log", message, OrchHeld({}))
\* `error!(.., "target peer not found in remote db,..")`: written in the else of
\* `if result_peer.is_some()`, inside `if !acc_ids.is_empty()`
PeerNotFoundLog == OrchLog("target peer not found in remote db")
\* the swarm task owns its receiver: nothing is held around the loop
SwarmLock(lock, held) == Await("swarm", "lock", lock, held)
SwarmCall(call, held) == Await("swarm", "call", call, held)

\* the guard made in the scrutinee of `if let Ok(_) = ..lock().await.validate..(..)` is
\* held in the block that follows
IfLetGuard(lock) == { lock }
\* in the else block it is still held when the crate is built with an edition up to
\* 2021, and dropped when it is built with edition 2024
IfLetElseGuards(lock) == { { lock }, {} }

\* `self.rpc_sender_channel.lock().await.send(tx).await` by the orchestrator
OrchSendAwaits(held) ==
    { OrchLock("rpc_sender_channel", held),
      OrchCall("send", held \cup { "rpc_sender_channel" }) }
\* the same statement in the swarm task
SwarmSendAwaits(held) ==
    { SwarmLock("rpc_sender_channel", held),
      SwarmCall("send", held \cup { "rpc_sender_channel" }) }

(***************************************************************************)
(* The swarm task: handle_swarm_event_messages.                            *)
(***************************************************************************)
\* the sending half of rpc_sender_channel has room
RpcSenderHasRoom == Len(rpc_sender_channel) < RpcChannelCapacity

\* the orchestrator holds the tx_processing_worker lock while it waits for that lock
tx_processing_worker_locked == orch_pc = "blocked"

\* a mutation of response_failed_row: the row is recorded as a success
response_failed_row_as_success(decoded_resp) ==
    DbTxStateMachine(<< >>, decoded_resp.amount, decoded_resp.network, TRUE)

\* the row the Response branch records for a failed receiver confirmation
response_failed_row(decoded_resp) ==
    DbTxStateMachine(<< >>, decoded_resp.amount, decoded_resp.network, FALSE)

\* a mutation of handle_swarm_request: the transaction is forwarded as it was decoded
handle_swarm_request_without_id(data, inbound_id) ==
    \E decoded_req \in { Decode(data) } :
        /\ RpcSenderHasRoom
        /\ rpc_sender_channel' = Append(rpc_sender_channel, decoded_req)
        /\ awaits' = { SwarmCall("recv", {}) } \cup SwarmSendAwaits({})
        /\ UNCHANGED << tx_history, recv_verified, swarm_pc >>

\* SwarmMessage::Request { data, inbound_id }
handle_swarm_request(data, inbound_id) ==
    \E decoded_req \in { [ Decode(data) EXCEPT !.inbound_req_id = Some(HashId(inbound_id)) ] } :
        /\ RpcSenderHasRoom
        /\ rpc_sender_channel' = Append(rpc_sender_channel, decoded_req)
        /\ awaits' = { SwarmCall("recv", {}) } \cup SwarmSendAwaits({})
        /\ UNCHANGED << tx_history, recv_verified, swarm_pc >>

\* a mutation of response_validation: the role of the other call site is passed
response_validation_wrong_role(decoded_resp) ==
    validate_receiver_sender_address(decoded_resp, "Sender")

\* the validation the Response branch runs on the decoded transaction
response_validation(decoded_resp) ==
    validate_receiver_sender_address(decoded_resp, "Receiver")

\* SwarmMessage::Response { data, outbound_id }
handle_swarm_response(data, outbound_id) ==
    \E decoded_resp \in
           { [ Decode(data) EXCEPT !.outbound_req_id = Some(HashId(outbound_id)) ] } :
      LET res == response_validation(decoded_resp)
      IN  CASE res = "Ok" ->
               /\ RpcSenderHasRoom
               /\ rpc_sender_channel' =
                      Append(rpc_sender_channel, recv_confirmation_passed(decoded_resp))
               /\ recv_verified' = recv_verified \cup { TxCore(decoded_resp) }
               /\ awaits' = { SwarmCall("recv", {}), SwarmLock("tx_processing_worker", {}) }
                             \cup SwarmSendAwaits({})
               /\ UNCHANGED << tx_history, swarm_pc >>
          [] res = "Err" ->
               /\ RpcSenderHasRoom
               /\ tx_history' = Append(tx_history, response_failed_row(decoded_resp))
               /\ rpc_sender_channel' =
                      Append(rpc_sender_channel, recv_confirmation_failed(decoded_resp))
               /\ \E guard \in IfLetElseGuards("tx_processing_worker") :
                    awaits' =
                      { SwarmCall("recv", {}), SwarmLock("tx_processing_worker", {}),
                        SwarmLock("db_worker", guard),
                        SwarmCall("update_failed_tx", guard \cup { "db_worker" }) }
                      \cup SwarmSendAwaits({})
               /\ UNCHANGED << recv_verified, swarm_pc >>
          [] res = "Panic" ->
               /\ swarm_pc' = "panicked"
               /\ awaits' = { SwarmCall("recv", {}), SwarmLock("tx_processing_worker", {}) }
               /\ UNCHANGED << rpc_sender_channel, tx_history, recv_verified >>

SwarmFrame == UNCHANGED << user_rpc_update_recv_channel, p2p_command_channel, saved_peers,
                           remote_peers, orch_pc, orch_txn, swarm_closed, submit_calls,
                           last_status, remote_calls, inputs >>

\* the loop takes a Request event
SwarmRequest ==
    /\ swarm_pc = "running"
    /\ swarm_recv_channel # << >>
    /\ LET swarm_msg == Head(swarm_recv_channel)
       IN  /\ swarm_msg.kind = "Request"
           /\ Decodes(swarm_msg.data)
           /\ handle_swarm_request(swarm_msg.data, swarm_msg.id)
    /\ swarm_recv_channel' = Tail(swarm_recv_channel)
    /\ SwarmFrame

\* the loop takes a Response event
SwarmResponse ==
    /\ swarm_pc = "running"
    /\ swarm_recv_channel # << >>
    /\ ~tx_processing_worker_locked
    /\ LET swarm_msg == Head(swarm_recv_channel)
       IN  /\ swarm_msg.kind = "Response"
           /\ Decodes(swarm_msg.data)
           /\ handle_swarm_response(swarm_msg.data, swarm_msg.id)
    /\ swarm_recv_channel' = Tail(swarm_recv_channel)
    /\ SwarmFrame

\* the loop takes an event whose data does not decode: expect() panics
SwarmDecodePanic ==
    /\ swarm_pc = "running"
    /\ swarm_recv_channel # << >>
    /\ ~Decodes(Head(swarm_recv_channel).data)
    /\ swarm_recv_channel' = Tail(swarm_recv_channel)
    /\ swarm_pc' = "panicked"
    /\ awaits' = { SwarmCall("recv", {}) }
    /\ UNCHANGED << rpc_sender_channel, tx_history, recv_verified >>
    /\ SwarmFrame

\* recv() returns None (the channel is closed and empty): `if let Some(..)` does not
\* match and the loop goes round again
SwarmRecvNone ==
    /\ swarm_pc = "running"
    /\ swarm_recv_channel = << >>
    /\ swarm_closed
    /\ awaits' = { SwarmCall("recv", {}) }
    /\ UNCHANGED << swarm_recv_channel, rpc_sender_channel, tx_history, recv_verified,
                    swarm_pc >>
    /\ SwarmFrame


(***************************************************************************)
(* The orchestrator task: handle_incoming_rpc_tx_updates and its handlers. *)
(***************************************************************************)
\* a mutation of dispatch: a failed submission is routed to the SenderConfirmed handler
dispatch_resubmits_failed(status) ==
    CASE status = Genesis -> "handle_genesis_tx_state"
      [] status = RecvAddrConfirmed -> "handle_recv_addr_confirmed_tx_state"
      [] status = NetConfirmed -> "todo"
      [] status \in { SenderConfirmed, TxSubmissionFailed } -> "handle_sender_confirmed_tx_state"
      [] OTHER -> "nothing"

\* a mutation of dispatch: a NetConfirmed update is handled as a SenderConfirmed one
dispatch_net_confirmed_proceeds(status) ==
    CASE status = Genesis -> "handle_genesis_tx_state"
      [] status = RecvAddrConfirmed -> "handle_recv_addr_confirmed_tx_state"
      [] status \in { NetConfirmed, SenderConfirmed } -> "handle_sender_confirmed_tx_state"
      [] OTHER -> "nothing"

\* the arm of `match status` that takes an update
dispatch(status) ==
    CASE status = Genesis -> "handle_genesis_tx_state"
      [] status = RecvAddrConfirmed -> "handle_recv_addr_confirmed_tx_state"
      [] status = NetConfirmed -> "todo"
      [] status = SenderConfirmed -> "handle_sender_confirmed_tx_state"
      [] OTHER -> "nothing"

\* a mutation of find_remote_peer: the first entry is taken whatever accounts it lists
find_remote_peer_any(acc_ids, target_id_addr) ==
    IF acc_ids = << >> THEN NoneV ELSE Some(acc_ids[1])

\* the entry find_map returns: the first entry of the remote directory listing the account
find_remote_peer(acc_ids, target_id_addr) ==
    LET hits == { i \in DOMAIN acc_ids : target_id_addr \in acc_ids[i].account_ids }
    IN  IF hits = {} THEN NoneV
        ELSE Some(acc_ids[CHOOSE i \in hits : \A j \in hits : i <= j])

\* recv() hands over an update and the loop reads its status
OrchTakeAwaits == { OrchCall("recv", {}), OrchLock("txn", {}) }

\* the dial under the p2p_network_service lock
DialAwaits ==
    { OrchLock("p2p_network_service", {}),
      OrchCall("dial_to_peer_id", { "p2p_network_service" }) }
\* a dial followed by a send_request, each under the p2p_network_service lock
DialAndSendAwaits ==
    DialAwaits \cup { OrchCall("send_request", { "p2p_network_service" }) }

\* dial the peer, then send it the transaction as a request.  Each call returns a
\* Result followed by `?`: when the dial fails the request is not sent, and either
\* failure leaves the handler and the loop.  `before` are the suspension points passed
\* before the dial, `between` those between the dial and the request.
dial_and_send(txn, node_id, multi_addr, before, between) ==
    \/ /\ Len(p2p_command_channel) + 2 <= RpcChannelCapacity
       /\ p2p_command_channel' =
              Append(Append(p2p_command_channel, dial_to_peer_id(multi_addr, node_id)),
                     send_request(txn, node_id, multi_addr))
       /\ awaits' = before \cup DialAndSendAwaits \cup between
       /\ UNCHANGED orch_pc
    \/ /\ UNCHANGED p2p_command_channel
       /\ awaits' = before \cup DialAwaits
       /\ orch_pc' = "failed"
    \/ /\ Len(p2p_command_channel) + 1 <= RpcChannelCapacity
       /\ p2p_command_channel' =
              Append(p2p_command_channel, dial_to_peer_id(multi_addr, node_id))
       /\ awaits' = before \cup DialAndSendAwaits \cup between
       /\ orch_pc' = "failed"

handle_genesis_tx_state(txn) ==
    LET target_id == txn.receiver_address
        target_peer_result == get_saved_user_peers(target_id)
        lookup == OrchTakeAwaits
                  \cup { OrchLock("db_worker", {}),
                         OrchCall("get_saved_user_peers", { "db_worker" }) }
    IN  /\ IF target_peer_result # {}
           THEN LET acc == CHOOSE a \in target_peer_result : TRUE
                IN  /\ dial_and_send(txn, acc.node_id, acc.multi_addr, lookup, {})
                    /\ UNCHANGED << saved_peers, remote_calls >>
           ELSE LET acc_ids == list_all_peers
                    result_peer == find_remote_peer(acc_ids, txn.receiver_address)
                    remote == lookup \cup { OrchCall("list_all_peers", {}) }
                IN  /\ remote_calls' = remote_calls + 1
                    /\ IF acc_ids # << >> /\ IsSome(result_peer)
                       THEN LET peer_record == PeerRecordFrom(Unwrap(result_peer))
                            IN  /\ saved_peers' = saved_peers \cup { peer_record }
                                /\ dial_and_send(
                                       txn, peer_record.node_id, peer_record.multi_addr,
                                       remote \cup { OrchLock("db_worker", {}),
                                                     OrchCall("record_saved_user_peers",
                                                              { "db_worker" }) },
                                       { OrchCall("sleep", { "p2p_network_service" }) })
                       ELSE /\ awaits' = remote \cup (IF acc_ids # << >>
                                                       THEN { PeerNotFoundLog }
                                                       ELSE {})
                            /\ UNCHANGED << saved_peers, p2p_command_channel, orch_pc >>
        /\ UNCHANGED << rpc_sender_channel, tx_history, orch_txn, submit_calls >>

handle_recv_addr_confirmed_tx_state(txn) ==
    IF ~IsSome(txn.inbound_req_id)
    THEN \* expect("no inbound req id found") panics
         /\ orch_pc' = "panicked"
         /\ awaits' = OrchTakeAwaits
         /\ UNCHANGED << p2p_command_channel, saved_peers, rpc_sender_channel, tx_history,
                         orch_txn, submit_calls >>
    ELSE /\ Len(p2p_command_channel) < RpcChannelCapacity
         /\ p2p_command_channel' =
                Append(p2p_command_channel, send_response(Unwrap(txn.inbound_req_id), txn))
         /\ awaits' = OrchTakeAwaits
                      \cup { OrchLock("p2p_network_service", {}),
                             OrchCall("send_response", { "p2p_network_service" }) }
         /\ UNCHANGED << saved_peers, rpc_sender_channel, tx_history, orch_pc, orch_txn,
                         submit_calls >>

\* the row Branch B records when the multi-id does not verify
multi_id_failed_row(txn_inner) ==
    DbTxStateMachine(<< >>, txn_inner.amount, txn_inner.network, FALSE)

\* a mutation of sender_validation: every signed_call_payload is accepted
sender_validation_accepts_all(txn_inner) == "Ok"

\* the validation Branch A runs on the update
sender_validation(txn_inner) ==
    validate_receiver_sender_address(txn_inner, "Sender")

\* Branch A and Branch B start by taking the tx_processing_worker lock
SenderConfirmedAwaits == OrchTakeAwaits \cup { OrchLock("tx_processing_worker", {}) }

\* handle_sender_confirmed_tx_state.  When the sender's signature validates, the handler
\* goes on to `self.tx_processing_worker.lock().await.submit_tx(..)` inside the `if let`
\* whose scrutinee made the guard of that same lock: the request never returns.
handle_sender_confirmed_tx_state(txn_inner) ==
    /\ UNCHANGED << p2p_command_channel, saved_peers >>
    /\ IF IsSome(txn_inner.signed_call_payload)
       THEN LET res == sender_validation(txn_inner)
            IN  CASE res = "Ok" ->
                       /\ orch_pc' = "blocked"
                       /\ orch_txn' = Some(txn_inner)
                       /\ submit_calls' = Append(submit_calls, txn_inner)
                       /\ awaits' =
                              SenderConfirmedAwaits
                              \cup { OrchLock("tx_processing_worker",
                                              IfLetGuard("tx_processing_worker")) }
                       /\ UNCHANGED << rpc_sender_channel, tx_history >>
                  [] res = "Err" ->
                       /\ RpcSenderHasRoom
                       /\ rpc_sender_channel' =
                              Append(rpc_sender_channel, sender_confirmation_failed(txn_inner))
                       /\ \E guard \in IfLetElseGuards("tx_processing_worker") :
                            awaits' = SenderConfirmedAwaits \cup OrchSendAwaits(guard)
                       /\ UNCHANGED << tx_history, orch_pc, orch_txn, submit_calls >>
                  [] res = "Panic" ->
                       /\ orch_pc' = "panicked"
                       /\ awaits' = SenderConfirmedAwaits
                       /\ UNCHANGED << rpc_sender_channel, tx_history, orch_txn, submit_calls >>
       ELSE IF ~validate_multi_id(txn_inner)
            THEN /\ RpcSenderHasRoom
                 /\ tx_history' = Append(tx_history, multi_id_failed_row(txn_inner))
                 /\ rpc_sender_channel' = Append(rpc_sender_channel, txn_inner)
                 /\ awaits' = SenderConfirmedAwaits
                              \cup { OrchLock("db_worker", {}),
                                     OrchCall("update_failed_tx", { "db_worker" }) }
                              \cup OrchSendAwaits({})
                 /\ UNCHANGED << orch_pc, orch_txn, submit_calls >>
            ELSE \E created \in create_tx(txn_inner) :
                   CASE created.res = "Ok" ->
                          /\ RpcSenderHasRoom
                          /\ rpc_sender_channel' = Append(rpc_sender_channel, created.tx)
                          /\ awaits' = SenderConfirmedAwaits
                                       \cup { OrchCall("create_tx",
                                                       { "tx_processing_worker" }) }
                                       \cup OrchSendAwaits({})
                          /\ UNCHANGED << tx_history, orch_pc, orch_txn, submit_calls >>
                     [] created.res = "Err" ->
                          \* `?` returns the error out of the handler and out of the loop
                          /\ orch_pc' = "failed"
                          /\ awaits' = SenderConfirmedAwaits
                                       \cup { OrchCall("create_tx",
                                                       { "tx_processing_worker" }) }
                          /\ UNCHANGED << rpc_sender_channel, tx_history, orch_txn,
                                          submit_calls >>
                     [] created.res = "Panic" ->
                          /\ orch_pc' = "panicked"
                          /\ awaits' = SenderConfirmedAwaits
                          /\ UNCHANGED << rpc_sender_channel, tx_history, orch_txn,
                                          submit_calls >>

OrchFrame == UNCHANGED << swarm_recv_channel, remote_peers, swarm_pc, swarm_closed,
                          recv_verified, inputs >>

\* the handlers other than the Genesis handler do not resolve peers
NoResolution == UNCHANGED remote_calls

OrchReady == orch_pc = "idle" /\ user_rpc_update_recv_channel # << >>

\* a mutation of TakeUpdate: the update sent last leaves the channel
TakeUpdateFromBack ==
    /\ last_status' = Some(Head(user_rpc_update_recv_channel).status)
    /\ user_rpc_update_recv_channel' =
           SubSeq(user_rpc_update_recv_channel, 1, Len(user_rpc_update_recv_channel) - 1)

\* recv() hands the loop the next update
TakeUpdate ==
    /\ last_status' = Some(Head(user_rpc_update_recv_channel).status)
    /\ user_rpc_update_recv_channel' = Tail(user_rpc_update_recv_channel)

OrchGenesis ==
    /\ OrchReady
    /\ LET txn == Head(user_rpc_update_recv_channel)
       IN  /\ dispatch(txn.status) = "handle_genesis_tx_state"
           /\ handle_genesis_tx_state(txn)
    /\ TakeUpdate
    /\ OrchFrame

OrchRecvAddrConfirmed ==
    /\ OrchReady
    /\ LET txn == Head(user_rpc_update_recv_channel)
       IN  /\ dispatch(txn.status) = "handle_recv_addr_confirmed_tx_state"
           /\ handle_recv_addr_confirmed_tx_state(txn)
    /\ TakeUpdate
    /\ NoResolution
    /\ OrchFrame

\* TxStatus::NetConfirmed => todo!()
OrchNetConfirmed ==
    /\ OrchReady
    /\ dispatch(Head(user_rpc_update_recv_channel).status) = "todo"
    /\ TakeUpdate
    /\ NoResolution
    /\ orch_pc' = "panicked"
    /\ awaits' = OrchTakeAwaits
    /\ UNCHANGED << p2p_command_channel, saved_peers, rpc_sender_channel, tx_history,
                    orch_txn, submit_calls >>
    /\ OrchFrame

OrchSenderConfirmed ==
    /\ OrchReady
    /\ LET txn == Head(user_rpc_update_recv_channel)
       IN  /\ dispatch(txn.status) = "handle_sender_confirmed_tx_state"
           /\ handle_sender_confirmed_tx_state(txn)
    /\ TakeUpdate
    /\ NoResolution
    /\ OrchFrame

\* _ => {}
OrchOtherStatus ==
    /\ OrchReady
    /\ dispatch(Head(user_rpc_update_recv_channel).status) = "nothing"
    /\ TakeUpdate
    /\ NoResolution
    /\ awaits' = OrchTakeAwaits
    /\ UNCHANGED << p2p_command_channel, saved_peers, rpc_sender_channel, tx_history,
                    orch_pc, orch_txn, submit_calls >>
    /\ OrchFrame


(***************************************************************************)
(* The environment: the RPC layer, the swarm, the p2p worker.              *)
(***************************************************************************)
\* the signature the key of `key` makes over `msg` with the algorithm of the network
SignFor(network, key, msg) ==
    IF network = "Solana" THEN EdSign(key, msg) ELSE EcdsaSign(key, msg)

\* a signature of the algorithm the network does not use (it has the wrong length)
WrongAlgSign(network, key, msg) ==
    IF network = "Solana" THEN EcdsaSign(key, msg) ELSE EdSign(key, msg)

\* a TxStateMachine as the RPC layer or a peer may hand it to the node; the sender is
\* "0xA" throughout
TxStateMachine(status, network, receiver, multi_id, amount, scp, rs, inb) ==
    [ sender_address |-> "0xA", receiver_address |-> receiver, multi_id |-> multi_id,
      network |-> network, amount |-> amount, call_payload |-> NoneV,
      signed_call_payload |-> scp, recv_signature |-> rs, status |-> status,
      inbound_req_id |-> inb, outbound_req_id |-> NoneV, tx_hash |-> NoneV,
      failure_reason |-> NoneV ]

\* tx with the call_payload create_tx would have given it
WithCallPayload(tx) == [ tx EXCEPT !.call_payload = Some(RlpEncode(UnsignedTxOf(tx))) ]

\* multi_id of a transaction from "0xA" to "0xB": the right one, and one computed for
\* another receiver (the receiver was rewritten in transit)
MultiIds == { MultiIdOf("0xA", "0xB"), MultiIdOf("0xA", "0xA") }

\* SenderConfirmed, not signed yet (Branch B)
UnsignedSenderConfirmedUpdates ==
    { TxStateMachine(SenderConfirmed, n, "0xB", m, a, NoneV, NoneV, NoneV) :
        n \in Networks, m \in MultiIds, a \in Amounts }

\* SenderConfirmed and signed (Branch A): signed by the sender's key, by the
\* receiver's key over the sender address, by the receiver's key over its own address,
\* or with a signature of the wrong algorithm; with the call_payload, or without it
SignedSenderConfirmedUpdates ==
    UNION { { WithCallPayload(TxStateMachine(SenderConfirmed, n, "0xB", m, a, Some(sig),
                                             NoneV, NoneV)) :
                m \in MultiIds, a \in Amounts,
                sig \in { SignFor(n, "0xA", "0xA"), SignFor(n, "0xB", "0xA"),
                          SignFor(n, "0xB", "0xB") } }
            \cup { WithCallPayload(TxStateMachine(SenderConfirmed, n, "0xB",
                                                  MultiIdOf("0xA", "0xB"), a,
                                                  Some(WrongAlgSign(n, "0xB", "0xA")),
                                                  NoneV, NoneV)) : a \in Amounts }
            \cup { TxStateMachine(SenderConfirmed, n, "0xB", MultiIdOf("0xA", "0xB"), a,
                                  Some(SignFor(n, "0xB", "0xA")), NoneV, NoneV) :
                     a \in Amounts }
            \cup { WithCallPayload(TxStateMachine(SenderConfirmed, n, "0xA",
                                                  MultiIdOf("0xA", "0xA"), a,
                                                  Some(SignFor(n, "0xA", "0xA")),
                                                  NoneV, NoneV)) : a \in Amounts } :
            n \in Networks }

\* RecvAddrConfirmed, from the receiving user, with and without the inbound request id
RecvAddrConfirmedUpdates ==
    { TxStateMachine(RecvAddrConfirmed, "Ethereum", "0xB", MultiIdOf("0xA", "0xB"), a, NoneV,
                     Some(EcdsaSign("0xB", "0xB")), inb) :
        a \in Amounts, inb \in { NoneV, Some(HashId(1)) } }

\* Genesis, to a receiver the remote directory may list ("0xB") and to one it does not
GenesisUpdates ==
    { TxStateMachine(Genesis, "Ethereum", r, MultiIdOf("0xA", r), a, NoneV, NoneV, NoneV) :
        r \in Addresses, a \in Amounts }

\* any other status, on a transaction that is signed and ready to broadcast
OtherUpdates ==
    { WithCallPayload(TxStateMachine(st, "Ethereum", "0xB", MultiIdOf("0xA", "0xB"), a,
                                     Some(EcdsaSign("0xB", "0xA")),
                                     Some(EcdsaSign("0xB", "0xB")), NoneV)) :
        st \in TxStatus \ { Genesis, RecvAddrConfirmed, SenderConfirmed }, a \in Amounts }

RpcUpdates == UnsignedSenderConfirmedUpdates \cup SignedSenderConfirmedUpdates
              \cup RecvAddrConfirmedUpdates \cup GenesisUpdates \cup OtherUpdates

SwarmMessage(kind, data, id) == [ kind |-> kind, data |-> data, id |-> id ]

RequestEvents ==
    { SwarmMessage("Request", Encode(tx), 1) : tx \in GenesisUpdates }
    \cup { SwarmMessage("Request", GarbageBytes, 1) }

\* a Response: the receiver's answer, with no signature, with the receiver's signature
\* over its address, with another key's signature, with a signature over another
\* address, or with a signature of the wrong algorithm; and an answer that carries a
\* terminal status
ResponseEvents ==
    UNION { { SwarmMessage("Response",
                           Encode(TxStateMachine(RecvAddrConfirmed, n, "0xB",
                                                 MultiIdOf("0xA", "0xB"), a, NoneV, rs,
                                                 Some(HashId(1)))), 1) :
                a \in Amounts,
                rs \in { NoneV, Some(SignFor(n, "0xB", "0xB")), Some(SignFor(n, "0xA", "0xB")),
                         Some(SignFor(n, "0xB", "0xA")),
                         Some(WrongAlgSign(n, "0xB", "0xB")) } }
            \cup { SwarmMessage("Response",
                                Encode(TxStateMachine(TxSubmissionPassed, n, "0xB",
                                                      MultiIdOf("0xA", "0xB"), a, NoneV,
                                                      Some(SignFor(n, "0xB", "0xB")),
                                                      Some(HashId(1)))), 1) :
                     a \in Amounts } :
            n \in Networks }
    \cup { SwarmMessage("Response", GarbageBytes, 1) }

\* the RPC layer sends an update of the user
UserRpcUpdate ==
    /\ inputs < MaxInputs
    /\ Len(user_rpc_update_recv_channel) < RpcChannelCapacity
    /\ \E txn \in RpcUpdates :
         user_rpc_update_recv_channel' = Append(user_rpc_update_recv_channel, txn)
    /\ inputs' = inputs + 1
    /\ UNCHANGED << swarm_recv_channel, rpc_sender_channel, p2p_command_channel, saved_peers,
                    tx_history, remote_peers, orch_pc, orch_txn, swarm_pc, swarm_closed,
                    submit_calls, recv_verified, last_status, remote_calls, awaits >>

\* the swarm raises an event
SwarmEvent ==
    /\ inputs < MaxInputs
    /\ ~swarm_closed
    /\ Len(swarm_recv_channel) < SwarmChannelCapacity
    /\ \E swarm_msg \in RequestEvents \cup ResponseEvents :
         swarm_recv_channel' = Append(swarm_recv_channel, swarm_msg)
    /\ inputs' = inputs + 1
    /\ UNCHANGED << user_rpc_update_recv_channel, rpc_sender_channel, p2p_command_channel,
                    saved_peers, tx_history, remote_peers, orch_pc, orch_txn, swarm_pc,
                    swarm_closed, submit_calls, recv_verified, last_status, remote_calls,
                    awaits >>

\* start_swarm returns: the task that owns the sending half of swarm_recv_channel ends
\* and the sender is dropped
SwarmSenderDropped ==
    /\ ~swarm_closed
    /\ swarm_closed' = TRUE
    /\ UNCHANGED << user_rpc_update_recv_channel, swarm_recv_channel, rpc_sender_channel,
                    p2p_command_channel, saved_peers, tx_history, remote_peers, orch_pc,
                    orch_txn, swarm_pc, submit_calls, recv_verified, last_status,
                    remote_calls, awaits, inputs >>

\* the RPC worker takes the next transaction the node emitted
RpcWorkerRecv ==
    /\ rpc_sender_channel # << >>
    /\ rpc_sender_channel' = Tail(rpc_sender_channel)
    /\ UNCHANGED << user_rpc_update_recv_channel, swarm_recv_channel, p2p_command_channel,
                    saved_peers, tx_history, remote_peers, orch_pc, orch_txn, swarm_pc,
                    swarm_closed, submit_calls, recv_verified, last_status, remote_calls,
                    awaits, inputs >>

\* the p2p worker takes the next command
P2pWorkerRecv ==
    /\ p2p_command_channel # << >>
    /\ p2p_command_channel' = Tail(p2p_command_channel)
    /\ UNCHANGED << user_rpc_update_recv_channel, swarm_recv_channel, rpc_sender_channel,
                    saved_peers, tx_history, remote_peers, orch_pc, orch_txn, swarm_pc,
                    swarm_closed, submit_calls, recv_verified, last_status, remote_calls,
                    awaits, inputs >>

(***************************************************************************)
(* The specification.                                                      *)
(***************************************************************************)
Init ==
    /\ user_rpc_update_recv_channel = << >>
    /\ swarm_recv_channel = << >>
    /\ rpc_sender_channel = << >>
    /\ p2p_command_channel = << >>
    /\ saved_peers = {}
    /\ tx_history = << >>
    /\ remote_peers \in { << >>, << DiscoveryB >> }
    /\ orch_pc = "idle"
    /\ orch_txn = NoneV
    /\ swarm_pc = "running"
    /\ swarm_closed = FALSE
    /\ submit_calls = << >>
    /\ recv_verified = {}
    /\ last_status = NoneV
    /\ remote_calls = 0
    /\ awaits = {}
    /\ inputs = 0

Next ==
    \/ UserRpcUpdate
    \/ SwarmEvent
    \/ RpcWorkerRecv
    \/ P2pWorkerRecv
    \/ SwarmRequest
    \/ SwarmResponse
    \/ SwarmDecodePanic
    \/ OrchGenesis
    \/ OrchRecvAddrConfirmed
    \/ OrchNetConfirmed
    \/ OrchSenderConfirmed
    \/ OrchOtherStatus

Spec == Init /\ [][Next]_vars


\* The tasks are scheduled, and the RPC worker and the p2p worker drain their channels.
Fairness ==
    /\ WF_vars(OrchGenesis \/ OrchRecvAddrConfirmed \/ OrchNetConfirmed
               \/ OrchSenderConfirmed \/ OrchOtherStatus)
    /\ WF_vars(SwarmRequest \/ SwarmResponse \/ SwarmDecodePanic)
    /\ WF_vars(RpcWorkerRecv)
    /\ WF_vars(P2pWorkerRecv)

FairSpec == Init /\ [][Next]_vars /\ Fairness

\* Shutdown: the runs in which the swarm may end and drop the sending half of
\* swarm_recv_channel.
ShutdownNext ==
    \/ Next
    \/ SwarmSenderDropped
    \/ SwarmRecvNone

ShutdownSpec == Init /\ [][ShutdownNext]_vars /\ Fairness /\ WF_vars(SwarmRecvNone)

\* Load: the runs in which the swarm sends as long as its channel has room.  It raises
\* one Request again and again; the swarm task handles each as in every other run and
\* the RPC layer takes what the task emits.
LoadRequest ==
    SwarmMessage("Request",
                 Encode(TxStateMachine(Genesis, "Ethereum", "0xB", MultiIdOf("0xA", "0xB"),
                                       1000, NoneV, NoneV, NoneV)), 1)

\* sender_channel.send(..).await of the swarm: waits while the channel is full
SwarmEventUnderLoad ==
    /\ Len(swarm_recv_channel) < SwarmChannelCapacity
    /\ swarm_recv_channel' = Append(swarm_recv_channel, LoadRequest)
    /\ UNCHANGED << user_rpc_update_recv_channel, rpc_sender_channel, p2p_command_channel,
                    saved_peers, tx_history, remote_peers, orch_pc, orch_txn, swarm_pc,
                    swarm_closed, submit_calls, recv_verified, last_status, remote_calls,
                    awaits, inputs >>

LoadNext ==
    \/ SwarmEventUnderLoad
    \/ SwarmRequest
    \/ RpcWorkerRecv

LoadSpec == Init /\ [][LoadNext]_vars

(***************************************************************************)
(* Vocabulary of the properties.                                           *)
(***************************************************************************)
\* the receiver's own key signed receiver_address with the algorithm of the network
ReceiverSignatureValid(tx) ==
    /\ tx.network \in { "Ethereum", "Bnb", "Solana" }
    /\ tx.recv_signature = Some(SignFor(tx.network, tx.receiver_address, tx.receiver_address))

\* the sender's own key signed sender_address with the algorithm of the network
SenderSignatureValid(tx) ==
    /\ tx.network \in { "Ethereum", "Bnb", "Solana" }
    /\ tx.signed_call_payload = Some(SignFor(tx.network, tx.sender_address, tx.sender_address))

\* this step sends tx on rpc_sender_channel, and nothing else
Emits(tx) == rpc_sender_channel' = Append(rpc_sender_channel, tx)
\* this step sends some transaction on rpc_sender_channel
EmitsSome == Len(rpc_sender_channel') = Len(rpc_sender_channel) + 1
Emitted == rpc_sender_channel'[Len(rpc_sender_channel')]

\* in this step the swarm task takes a Response that decodes
ResponseTaken ==
    /\ swarm_pc = "running"
    /\ swarm_recv_channel # << >>
    /\ Head(swarm_recv_channel).kind = "Response"
    /\ Decodes(Head(swarm_recv_channel).data)
    /\ swarm_recv_channel' = Tail(swarm_recv_channel)
\* the transaction of that Response, with its outbound request id attached
DecodedResp ==
    [ Decode(Head(swarm_recv_channel).data)
        EXCEPT !.outbound_req_id = Some(HashId(Head(swarm_recv_channel).id)) ]

\* in this step the swarm task takes an event
SwarmTaken == swarm_recv_channel # << >> /\ swarm_recv_channel' = Tail(swarm_recv_channel)

\* in this step the orchestrator takes an update
UpdateTaken ==
    /\ OrchReady
    /\ user_rpc_update_recv_channel' = Tail(user_rpc_update_recv_channel)
TakenUpdate == Head(user_rpc_update_recv_channel)

\* the transaction the handler that emits in this step was given
HandlerInput ==
    IF SwarmTaken THEN Decode(Head(swarm_recv_channel).data) ELSE TakenUpdate

\* the failure row of a transaction
FailureRow(tx) ==
    [ tx_hash |-> << >>, amount |-> tx.amount, network |-> tx.network, success |-> FALSE ]


(***************************************************************************)
(* Properties.                                                             *)
(***************************************************************************)

C2_ResponseAlwaysSetsStatus ==
    [][ ResponseTaken =>
          IF ReceiverSignatureValid(DecodedResp)
          THEN Emits([ DecodedResp EXCEPT !.status = RecvAddrConfirmed ])
          ELSE Emits([ DecodedResp EXCEPT !.status = RecvAddrFailed ]) ]_vars

\* C2 amended: handling a Response sets RecvAddrConfirmed if and only if the receiver's
\* signature is valid; when validation returns an error (an absent signature included)
\* it sets RecvAddrFailed; on Polkadot with a signature present validation is not
\* implemented, the swarm task panics and no status is set.  No other step gives a
\* transaction the status RecvAddrConfirmed.
C2_ResponseStatusFollowsSignature ==
    [][ /\ ResponseTaken =>
             IF DecodedResp.network = "Polkadot" /\ IsSome(DecodedResp.recv_signature)
             THEN swarm_pc' = "panicked" /\ UNCHANGED rpc_sender_channel
             ELSE IF ReceiverSignatureValid(DecodedResp)
                  THEN Emits([ DecodedResp EXCEPT !.status = RecvAddrConfirmed ])
                  ELSE Emits([ DecodedResp EXCEPT !.status = RecvAddrFailed ])
        /\ (EmitsSome /\ ~ResponseTaken /\ Emitted.status = RecvAddrConfirmed)
             => HandlerInput.status = RecvAddrConfirmed ]_vars

\* C2 witness: a Response with a valid receiver signature was handled and emitted
C2_Witness ==
    \E i \in DOMAIN rpc_sender_channel :
        /\ rpc_sender_channel[i].status = RecvAddrConfirmed
        /\ IsSome(rpc_sender_channel[i].outbound_req_id)
        /\ ReceiverSignatureValid(rpc_sender_channel[i])
        /\ TxCore(rpc_sender_channel[i]) \in recv_verified

\* C3: a transaction passes sender validation and goes on to submission only if
\* signed_call_payload is the signature of the key of sender_address over sender_address.
C3_SubmittedOnlyIfSignedBySender ==
    \A i \in DOMAIN submit_calls : SenderSignatureValid(submit_calls[i])

\* C4: no transaction whose multi_id differs from the hash of its addresses passes the
\* checks of the handler and goes on to submission.
C4_BroadcastHasMatchingMultiId ==
    \A i \in DOMAIN submit_calls :
        LET tx == submit_calls[i]
        IN  tx.multi_id = MultiIdOf(tx.sender_address, tx.receiver_address)

\* the edges of the status graph
StatusSuccessors(status) ==
    CASE status = Genesis -> { ReceiverConfirmation }
      [] status = ReceiverConfirmation -> { RecvAddrConfirmed, RecvAddrFailed }
      [] status = RecvAddrConfirmed -> { NetConfirmed }
      [] status = NetConfirmed -> { SenderConfirmed, SenderConfirmationFailed }
      [] status = SenderConfirmed -> { TxSubmissionPassed, TxSubmissionFailed }
      [] OTHER -> {}

\* C5: a handler that emits a transaction leaves its status or moves it to a successor
\* of its status in the status graph.
C5_StatusMovesAlongGraph ==
    [][ EmitsSome =>
          \/ Emitted.status = HandlerInput.status
          \/ Emitted.status \in StatusSuccessors(HandlerInput.status) ]_vars

\* C6: when the orchestrator takes an update with a terminal status it sends no p2p
\* command, makes no chain call, writes no history row and no peer, emits nothing, and
\* is ready for the next update.
C6_TerminalUpdateHasNoEffect ==
    [][ (UpdateTaken /\ TakenUpdate.status \in TerminalStatus) =>
          /\ UNCHANGED << p2p_command_channel, rpc_sender_channel, tx_history, saved_peers,
                          submit_calls, orch_txn >>
          /\ orch_pc' = "idle" ]_vars

\* C6 witness: the orchestrator took an update with a terminal status and is idle
C6_Witness ==
    /\ IsSome(last_status)
    /\ Unwrap(last_status) \in TerminalStatus
    /\ orch_pc = "idle"

\* a signed SenderConfirmed update whose signature validates is next
ReadyToSubmit ==
    /\ OrchReady
    /\ TakenUpdate.status = SenderConfirmed
    /\ IsSome(TakenUpdate.signed_call_payload)
    /\ validate_receiver_sender_address(TakenUpdate, "Sender") = "Ok"

\* the statuses a submission ends in
SubmissionStatuses == { TxSubmissionPassed, TxSubmissionFailed }

\* C7: when a signed SenderConfirmed update whose signature validates is next, the
\* transaction is eventually emitted with TxSubmissionPassed or TxSubmissionFailed, and
\* the handler never blocks forever: the orchestrator never waits for a lock that no
\* one will release.
C7_EverySubmissionCompletes ==
    /\ ReadyToSubmit ~>
           (\E i \in DOMAIN rpc_sender_channel :
               rpc_sender_channel[i].status \in SubmissionStatuses)
    /\ [](orch_pc # "blocked")

\* C9 as stated: a Response whose recv_signature does not verify appends one failure row
\* and is emitted with RecvAddrFailed; every Response is forwarded exactly once.
C9_BadSignatureAlwaysRecorded ==
    [][ ResponseTaken =>
          /\ EmitsSome
          /\ (IsSome(DecodedResp.recv_signature) /\ ~ReceiverSignatureValid(DecodedResp))
               => /\ tx_history' = Append(tx_history, FailureRow(DecodedResp))
                  /\ Emits([ DecodedResp EXCEPT !.status = RecvAddrFailed ]) ]_vars

\* C9 amended: on Ethereum, Bnb and Solana a Response whose recv_signature does not verify
\* appends one failure row {tx_hash = empty, amount, network, success = false} and is
\* emitted with RecvAddrFailed, and a Response that passes writes no row; in both cases
\* the transaction is forwarded exactly once.  On Polkadot a Response that carries a
\* recv_signature makes the validation panic: no row is written and nothing is emitted.
C9_BadSignatureRecordedUnlessPolkadot ==
    [][ ResponseTaken =>
          IF DecodedResp.network = "Polkadot" /\ IsSome(DecodedResp.recv_signature)
          THEN UNCHANGED << rpc_sender_channel, tx_history >>
          ELSE /\ EmitsSome
               /\ TxCore(Emitted) = TxCore(DecodedResp)
               /\ IF ReceiverSignatureValid(DecodedResp)
                  THEN UNCHANGED tx_history
                  ELSE /\ tx_history' = Append(tx_history, FailureRow(DecodedResp))
                       /\ Emits([ DecodedResp EXCEPT !.status = RecvAddrFailed ]) ]_vars

\* C9 witness: a Response with a signature that does not verify was handled
C9_Witness ==
    \E i \in DOMAIN tx_history, j \in DOMAIN rpc_sender_channel :
        /\ rpc_sender_channel[j].status = RecvAddrFailed
        /\ IsSome(rpc_sender_channel[j].outbound_req_id)
        /\ IsSome(rpc_sender_channel[j].recv_signature)
        /\ ~ReceiverSignatureValid(rpc_sender_channel[j])
        /\ tx_history[i] = FailureRow(rpc_sender_channel[j])

\* the terminal statuses that report a failure
FailureStatus == { RecvAddrFailed, SenderConfirmationFailed, TxSubmissionFailed }

\* C10: an unsigned SenderConfirmed update whose multi_id does not match its addresses is
\* moved to a terminal failure status, gets one failure row, and is emitted without a
\* call_payload.
C10_MultiIdMismatchEndsInFailure ==
    [][ ( /\ UpdateTaken
          /\ TakenUpdate.status = SenderConfirmed
          /\ ~IsSome(TakenUpdate.signed_call_payload)
          /\ TakenUpdate.multi_id
               # MultiIdOf(TakenUpdate.sender_address, TakenUpdate.receiver_address) ) =>
          /\ tx_history' = Append(tx_history, FailureRow(TakenUpdate))
          /\ EmitsSome
          /\ Emitted.call_payload = NoneV
          /\ Emitted.status \in FailureStatus ]_vars


\* the account is in the local store / in the remote directory
InLocalStore(account_id) == \E acc \in saved_peers : account_id \in acc.account_ids
InRemoteDirectory(account_id) ==
    \E i \in DOMAIN remote_peers : account_id \in remote_peers[i].account_ids

\* C11: when the orchestrator takes a Genesis update whose receiver_address is in neither
\* the local store nor the remote directory, it sends no p2p command, writes nothing to
\* the local store, emits nothing, makes no chain call, and is ready for the next update.
C11_UnresolvedGenesisHasNoEffect ==
    [][ ( /\ UpdateTaken
          /\ TakenUpdate.status = Genesis
          /\ ~InLocalStore(TakenUpdate.receiver_address)
          /\ ~InRemoteDirectory(TakenUpdate.receiver_address) ) =>
          /\ UNCHANGED << p2p_command_channel, saved_peers, tx_history, rpc_sender_channel,
                          submit_calls, orch_txn >>
          /\ orch_pc' = "idle" ]_vars

\* C11 witness: the only input was a Genesis update, the remote directory has entries,
\* none of them listed the receiver, and the orchestrator took the update
C11_Witness ==
    /\ last_status = Some(Genesis)
    /\ inputs = 1
    /\ user_rpc_update_recv_channel = << >>
    /\ remote_peers # << >>
    /\ saved_peers = {}
    /\ p2p_command_channel = << >>
    /\ orch_pc = "idle"


\* C12: when the orchestrator takes a SenderConfirmed update that carries a
\* signed_call_payload and sender validation returns an error, it emits the transaction
\* with status SenderConfirmationFailed and tx_hash unset, does not go on to submit_tx,
\* and is ready for the next update.
C12_FailedSenderValidationStops ==
    [][ ( /\ UpdateTaken
          /\ TakenUpdate.status = SenderConfirmed
          /\ IsSome(TakenUpdate.signed_call_payload)
          /\ validate_receiver_sender_address(TakenUpdate, "Sender") = "Err" ) =>
          /\ Emits([ TakenUpdate EXCEPT !.status = SenderConfirmationFailed ])
          /\ Emitted.tx_hash = NoneV
          /\ UNCHANGED << submit_calls, orch_txn >>
          /\ orch_pc' = "idle" ]_vars

\* C12 witness: a signed update failed sender validation and was emitted; nothing was
\* handed to submit_tx
C12_Witness ==
    /\ submit_calls = << >>
    /\ orch_pc = "idle"
    /\ \E i \in DOMAIN rpc_sender_channel :
           /\ rpc_sender_channel[i].status = SenderConfirmationFailed
           /\ IsSome(rpc_sender_channel[i].signed_call_payload)
           /\ rpc_sender_channel[i].tx_hash = NoneV
           /\ validate_receiver_sender_address(rpc_sender_channel[i], "Sender") = "Err"


GenesisTaken == UpdateTaken /\ TakenUpdate.status = Genesis
\* in this step the Genesis update is sent to the peer of the saved record acc
DialsAndRequests(acc) ==
    p2p_command_channel' =
        Append(Append(p2p_command_channel, dial_to_peer_id(acc.multi_addr, acc.node_id)),
               send_request(TakenUpdate, acc.node_id, acc.multi_addr))
\* in this step the dial to the peer of acc, or the request after it, fails
DialOrSendFails(acc) ==
    /\ orch_pc' = "failed"
    /\ p2p_command_channel' \in
           { p2p_command_channel,
             Append(p2p_command_channel, dial_to_peer_id(acc.multi_addr, acc.node_id)) }

\* C15: a Genesis update whose receiver is in the local store is sent to the saved peer
\* (or the dial or the send to that peer fails) without a call to the remote directory;
\* a Genesis update resolved from the remote directory saves the peer it is sent to;
\* saved entries stay and an address has at most one of them, so a later resolution of
\* the address gives the same peer.
C15_ResolutionIsIdempotent ==
    /\ [][ (GenesisTaken /\ InLocalStore(TakenUpdate.receiver_address)) =>
             /\ remote_calls' = remote_calls
             /\ saved_peers' = saved_peers
             /\ \E acc \in saved_peers :
                    /\ TakenUpdate.receiver_address \in acc.account_ids
                    /\ (DialsAndRequests(acc) \/ DialOrSendFails(acc)) ]_vars
    /\ [][ ( /\ GenesisTaken
             /\ ~InLocalStore(TakenUpdate.receiver_address)
             /\ InRemoteDirectory(TakenUpdate.receiver_address) ) =>
             /\ remote_calls' = remote_calls + 1
             /\ \E acc \in saved_peers' :
                    /\ TakenUpdate.receiver_address \in acc.account_ids
                    /\ (DialsAndRequests(acc) \/ DialOrSendFails(acc)) ]_vars
    /\ [][ saved_peers \subseteq saved_peers' ]_vars
    /\ [](\A a \in Addresses :
            Cardinality({ acc \in saved_peers : a \in acc.account_ids }) <= 1)

\* C15 witness: two Genesis updates for the same address were resolved to the same peer
\* with one call to the remote directory
C15_Witness ==
    /\ remote_calls = 1
    /\ Len(p2p_command_channel) = 4
    /\ p2p_command_channel[1].cmd = "Dial"
    /\ p2p_command_channel[3] = p2p_command_channel[1]
    /\ p2p_command_channel[4].peer_id = p2p_command_channel[2].peer_id
    /\ p2p_command_channel[4].multi_addr = p2p_command_channel[2].multi_addr
    /\ saved_peers # {}


\* a channel gains messages at its back, or loses the one at its front, in this step
Sent(c_before, c_after) ==
    /\ Len(c_after) > Len(c_before)
    /\ SubSeq(c_after, 1, Len(c_before)) = c_before
Received(c_before, c_after) == c_before # << >> /\ c_after = Tail(c_before)
FifoStep(c_before, c_after) ==
    \/ c_after = c_before
    \/ Sent(c_before, c_after)
    \/ Received(c_before, c_after)

\* C16: every channel changes only by sends at its back or a receive at its front; the
\* orchestrator receives an update only when it has finished the one before, and the
\* update it handles is the one at the front; the swarm task likewise.
C16_ChannelsAreFifo ==
    /\ [][ /\ FifoStep(user_rpc_update_recv_channel, user_rpc_update_recv_channel')
           /\ FifoStep(swarm_recv_channel, swarm_recv_channel')
           /\ FifoStep(rpc_sender_channel, rpc_sender_channel')
           /\ FifoStep(p2p_command_channel, p2p_command_channel') ]_vars
    /\ [][ Received(user_rpc_update_recv_channel, user_rpc_update_recv_channel') =>
             /\ orch_pc = "idle"
             /\ last_status' = Some(Head(user_rpc_update_recv_channel).status) ]_vars
    /\ [][ last_status' # last_status =>
             Received(user_rpc_update_recv_channel, user_rpc_update_recv_channel') ]_vars
    /\ [][ Received(swarm_recv_channel, swarm_recv_channel') => swarm_pc = "running" ]_vars

\* C16 witness: two updates were sent, Genesis then SenderConfirmed; the orchestrator has
\* taken the Genesis update and the SenderConfirmed update is next
C16_Witness ==
    /\ last_status = Some(Genesis)
    /\ inputs = 2
    /\ Len(user_rpc_update_recv_channel) = 1
    /\ Head(user_rpc_update_recv_channel).status = SenderConfirmed
    /\ swarm_recv_channel = << >>
    /\ rpc_sender_channel = << >>


\* the transactions the node holds: updates waiting, the one being submitted, those emitted
HeldTransactions ==
    { user_rpc_update_recv_channel[i] : i \in DOMAIN user_rpc_update_recv_channel }
    \cup { rpc_sender_channel[i] : i \in DOMAIN rpc_sender_channel }
    \cup { orch_txn[i] : i \in DOMAIN orch_txn }

C18_UndecodableEventIsDropped ==
    [][ (SwarmTaken /\ ~Decodes(Head(swarm_recv_channel).data)) =>
          /\ UNCHANGED << rpc_sender_channel, tx_history >>
          /\ swarm_pc' = "running" ]_vars

\* C19: whenever a handler emits a transaction to which it gave a terminal status, it
\* appends a history row in the same step.
C19_TerminalOutcomeHasRow ==
    [][ ( /\ EmitsSome
          /\ Emitted.status \in TerminalStatus
          /\ Emitted.status # HandlerInput.status ) =>
          Len(tx_history') = Len(tx_history) + 1 ]_vars

\* C20: the history only grows, by one row at a time, and every row is appended in a step
\* that emits the transaction concerned with a terminal status.
C20_RowsOnlyOnTerminalOutcomes ==
    [][ tx_history' # tx_history =>
          /\ Len(tx_history') = Len(tx_history) + 1
          /\ SubSeq(tx_history', 1, Len(tx_history)) = tx_history
          /\ EmitsSome
          /\ Emitted.status \in TerminalStatus
          /\ tx_history'[Len(tx_history')].amount = Emitted.amount
          /\ tx_history'[Len(tx_history')].network = Emitted.network ]_vars

KnownTransactions ==
    HeldTransactions
    \cup { Decode(swarm_recv_channel[i].data) :
             i \in { j \in DOMAIN swarm_recv_channel : Decodes(swarm_recv_channel[j].data) } }

\* the statuses that report a success
SuccessStatuses == { RecvAddrConfirmed, TxSubmissionPassed }

\* C22: for every Polkadot transaction the node comes to hold, signature validation
\* returns no success for either role, create_tx returns no transaction and fills no
\* call_payload, and submit_tx sends nothing and returns no hash; and no step gives a
\* Polkadot transaction the status RecvAddrConfirmed or TxSubmissionPassed: one emitted
\* with such a status was handed to the handler with it.
C22_PolkadotNeverSucceeds ==
    /\ [](\A t \in KnownTransactions :
            t.network = "Polkadot" =>
              /\ validate_receiver_sender_address(t, "Receiver") # "Ok"
              /\ validate_receiver_sender_address(t, "Sender") # "Ok"
              /\ \A created \in create_tx(t) :
                    created.res = "Panic" /\ created.tx.call_payload = t.call_payload
              /\ submit_tx_prepare(t) = "Panic")
    /\ [][ (EmitsSome /\ Emitted.network = "Polkadot" /\ Emitted.status \in SuccessStatuses)
             => HandlerInput.status = Emitted.status ]_vars

\* C22 witness: the validation of a signed transaction ended in the panic of todo!(),
\* which is the outcome of the Polkadot arm only
C22_Witness ==
    /\ swarm_pc = "panicked"
    /\ SwarmLock("tx_processing_worker", {}) \in awaits

\* C23: each of the three channels (RPC to orchestrator, orchestrator to RPC, swarm to
\* swarm task) holds at most 10 messages.
C23_ChannelsHoldAtMostTen ==
    /\ Len(user_rpc_update_recv_channel) <= 10
    /\ Len(rpc_sender_channel) <= 10
    /\ Len(swarm_recv_channel) <= 10

\* the locks the order names, and the ones that come after db_worker and p2p_worker
EarlyLocks == { "db_worker", "p2p_worker", "p2p_network_service" }
LateLocks == { "tx_processing_worker", "rpc_sender_channel" }

\* C24: no task requests db_worker or a p2p lock while it holds tx_processing_worker or
\* the lock of the RPC-out sender.
C24_LocksTakenInOrder ==
    \A a \in awaits :
        (a.kind = "lock" /\ a.what \in EarlyLocks) => a.held \cap LateLocks = {}

\* the locks of the components and of the RPC channels
ComponentLocks == EarlyLocks \cup LateLocks \cup { "user_rpc_update_recv_channel" }
\* the calls that leave the node: the remote directory and the chain
RemoteCalls == { "list_all_peers", "send_raw_transaction" }

\* C25: no task holds a component lock or an RPC channel lock while it waits for a
\* remote-directory call or a chain call.
C25_NoLockAcrossRemoteCall ==
    \A a \in awaits :
        (a.kind = "call" /\ a.what \in RemoteCalls) => a.held \cap ComponentLocks = {}

\* C26: once the sending half of its input channel is gone and the channel is empty, the
\* swarm task leaves its loop: it does not stay in it forever.
C26_SwarmTaskExitsOnShutdown ==
    (swarm_closed /\ swarm_recv_channel = << >>) ~> (swarm_pc # "running")

\* C27: an error inside a handler does not end a task: neither task has left its loop
\* with the error of a handler, so each still takes what is queued.
C27_HandlerErrorDoesNotEndTask ==
    /\ orch_pc # "failed"
    /\ swarm_pc # "failed"

\* in this step the swarm task takes a Request that decodes
RequestTaken ==
    /\ swarm_pc = "running"
    /\ swarm_recv_channel # << >>
    /\ Head(swarm_recv_channel).kind = "Request"
    /\ Decodes(Head(swarm_recv_channel).data)
    /\ swarm_recv_channel' = Tail(swarm_recv_channel)
\* the transaction of that Request, as it was sent
DecodedReq == Decode(Head(swarm_recv_channel).data)

\* C28: the transaction the swarm task forwards for a Request has the status
\* ReceiverConfirmation.
C28_RequestForwardedAsReceiverConfirmation ==
    [][ RequestTaken => (EmitsSome /\ Emitted.status = ReceiverConfirmation) ]_vars

\* C29: the swarm task forwards a Request exactly once, as the transaction that was sent
\* with inbound_req_id set to the hash of the id of the event and no other field
\* changed; the transaction it forwards for a Response is the one that was sent with
\* outbound_req_id set to the hash of the id of the event, and only the status changed
\* besides.
C29_HandlersSetOnlyTheRequestId ==
    [][ /\ RequestTaken =>
             Emits([ DecodedReq EXCEPT
                       !.inbound_req_id = Some(HashId(Head(swarm_recv_channel).id)) ])
        /\ (ResponseTaken /\ rpc_sender_channel' # rpc_sender_channel) =>
             \E sent \in { Decode(Head(swarm_recv_channel).data) } :
               /\ EmitsSome
               /\ Emitted.outbound_req_id = Some(HashId(Head(swarm_recv_channel).id))
               /\ [ Emitted EXCEPT !.status = sent.status,
                                   !.outbound_req_id = sent.outbound_req_id ] = sent ]_vars

\* C29 witness: a Request and a Response were forwarded, each with its request id
C29_Witness ==
    \E i, j \in DOMAIN rpc_sender_channel :
        /\ rpc_sender_channel[i].status = Genesis
        /\ rpc_sender_channel[i].inbound_req_id = Some(HashId(1))
        /\ rpc_sender_channel[i].outbound_req_id = NoneV
        /\ rpc_sender_channel[j].outbound_req_id = Some(HashId(1))
        /\ rpc_sender_channel[j].status \in { RecvAddrConfirmed, RecvAddrFailed }

\* C30: for an update with status RecvAddrConfirmed the orchestrator sends one response
\* on the slot of the transaction's inbound_req_id; when the id is absent it sends no
\* response; in both cases it is ready for the next update.
C30_ResponseOnMatchingSlotOrConfinedFailure ==
    [][ (UpdateTaken /\ TakenUpdate.status = RecvAddrConfirmed) =>
          /\ IF IsSome(TakenUpdate.inbound_req_id)
             THEN p2p_command_channel' =
                      Append(p2p_command_channel,
                             send_response(Unwrap(TakenUpdate.inbound_req_id), TakenUpdate))
             ELSE UNCHANGED p2p_command_channel
          /\ orch_pc' = "idle" ]_vars

\* in this step the orchestrator takes a SenderConfirmed update
SenderConfirmedTaken == UpdateTaken /\ TakenUpdate.status = SenderConfirmed
\* the update with the call_payload create_tx builds for it
Filled(tx) == [ tx EXCEPT !.call_payload = Some(RlpEncode(UnsignedTxOf(tx))) ]
\* create_tx is among the calls of the step
CreateTxCalled == \E a \in awaits' : a.what = "create_tx"

\* C31 as stated: an unsigned SenderConfirmed update whose multi_id matches is emitted
\* once with call_payload filled, status SenderConfirmed and no signed_call_payload,
\* and is not taken to submission; a signed one is never given to create_tx and its
\* call_payload is not changed.
C31_UnsignedUpdateIsFilledAndEmitted ==
    [][ SenderConfirmedTaken =>
          IF ~IsSome(TakenUpdate.signed_call_payload)
          THEN /\ UNCHANGED submit_calls
               /\ validate_multi_id(TakenUpdate) => Emits(Filled(TakenUpdate))
          ELSE /\ ~CreateTxCalled
               /\ EmitsSome => Emitted.call_payload = TakenUpdate.call_payload ]_vars

\* C31 amended: signed_call_payload alone selects the branch.  An unsigned update whose
\* multi_id matches is never taken to submission; on Ethereum and Bnb it is either
\* emitted once with call_payload filled and nothing else changed, or create_tx fails
\* and nothing is emitted; on Solana and Polkadot create_tx is not implemented, the
\* orchestrator panics and nothing is emitted.  A signed update is never given to
\* create_tx and its call_payload is not changed.
C31_BranchFollowsSignedPayload ==
    [][ SenderConfirmedTaken =>
          IF ~IsSome(TakenUpdate.signed_call_payload)
          THEN /\ UNCHANGED submit_calls
               /\ validate_multi_id(TakenUpdate) =>
                    IF TakenUpdate.network \in { "Ethereum", "Bnb" }
                    THEN \/ Emits(Filled(TakenUpdate)) /\ CreateTxCalled /\ orch_pc' = "idle"
                         \/ UNCHANGED rpc_sender_channel /\ orch_pc' \in { "failed", "panicked" }
                    ELSE UNCHANGED rpc_sender_channel /\ orch_pc' = "panicked"
          ELSE /\ ~CreateTxCalled
               /\ EmitsSome => Emitted.call_payload = TakenUpdate.call_payload ]_vars

\* C31 witness: an unsigned update was emitted with its call_payload filled
C31_Witness ==
    /\ last_status = Some(SenderConfirmed)
    /\ \E i \in DOMAIN rpc_sender_channel :
          /\ rpc_sender_channel[i].status = SenderConfirmed
          /\ IsSome(rpc_sender_channel[i].call_payload)
          /\ ~IsSome(rpc_sender_channel[i].signed_call_payload)
    /\ \E a \in awaits : a.what = "create_tx"

\* the p2p commands queued in this step
NewCommands ==
    SubSeq(p2p_command_channel', Len(p2p_command_channel) + 1, Len(p2p_command_channel'))

\* C32: the Genesis handler resolves, then dials, then sends: the commands of a step
\* are none, or the dial to a peer saved for receiver_address alone when the request
\* after it failed, or that dial followed by the request to the same peer; a request is
\* never queued without the dial before it; and an address found in the remote
\* directory is in the local store after the step, whatever the dial and the send did.
C32_ResolveThenDialThenSend ==
    [][ GenesisTaken =>
          /\ \/ NewCommands = << >>
             \/ \E acc \in saved_peers' :
                   /\ TakenUpdate.receiver_address \in acc.account_ids
                   /\ \/ /\ NewCommands = << dial_to_peer_id(acc.multi_addr, acc.node_id) >>
                         /\ orch_pc' = "failed"
                      \/ /\ NewCommands =
                                << dial_to_peer_id(acc.multi_addr, acc.node_id),
                                   send_request(TakenUpdate, acc.node_id, acc.multi_addr) >>
                         /\ orch_pc' = "idle"
          /\ InRemoteDirectory(TakenUpdate.receiver_address) =>
                \E acc \in saved_peers' : TakenUpdate.receiver_address \in acc.account_ids ]_vars

\* C32 witness: an address was resolved from the remote directory and saved, the dial
\* failed, and no request was sent
C32_Witness ==
    /\ last_status = Some(Genesis)
    /\ inputs = 1
    /\ remote_calls = 1
    /\ saved_peers # {}
    /\ orch_pc = "failed"
    /\ p2p_command_channel = << >>
    /\ \A a \in awaits : a.what # "send_request"


(***************************************************************************)
(* C33: every Genesis update whose receiver_address is resolved neither by *)
(* the local store nor by the remote directory produces a peer-not-found   *)
(* warning, both when the directory returns entries none of which lists    *)
(* the address and when it returns no entry at all.                        *)
(***************************************************************************)
Unresolved(addr) == ~InLocalStore(addr) /\ ~InRemoteDirectory(addr)

C33_UnresolvedGenesisIsWarned ==
    [][ (GenesisTaken /\ Unresolved(TakenUpdate.receiver_address))
          => PeerNotFoundLog \in awaits' ]_vars

\* the part the code keeps: the warning is written when the directory returns entries
\* and none of them lists the address
C33_MissAmongEntriesIsWarned ==
    [][ (GenesisTaken /\ Unresolved(TakenUpdate.receiver_address) /\ remote_peers # << >>)
          => PeerNotFoundLog \in awaits' ]_vars

\* an empty directory: the Genesis update was taken, list_all_peers was called and
\* returned nothing, and the step wrote no warning
C33_EmptyDirectoryMiss ==
    /\ last_status = Some(Genesis)
    /\ remote_calls = 1
    /\ remote_peers = << >>
    /\ inputs = 1
    /\ orch_pc = "idle"
    /\ PeerNotFoundLog \notin awaits


(***************************************************************************)
(* C34: no handler of the orchestrator or of the swarm task writes         *)
(* signed_call_payload or recv_signature, or changes sender_address,       *)
(* receiver_address, amount, network or multi_id: in every transaction a   *)
(* step emits on the RPC-out channel or sends to a peer these fields are   *)
(* those of the transaction the handler received.                          *)
(***************************************************************************)
FrameFields(tx) ==
    << tx.sender_address, tx.receiver_address, tx.amount, tx.network, tx.multi_id,
       tx.signed_call_payload, tx.recv_signature >>

\* the transactions the commands queued in this step carry to a peer
SentToPeer ==
    { Decode(Unwrap(NewCommands[i].data)) :
        i \in { j \in DOMAIN NewCommands : IsSome(NewCommands[j].data) } }

C34_HandlersKeepSignaturesAndTransfer ==
    [][ /\ EmitsSome => FrameFields(Emitted) = FrameFields(HandlerInput)
        /\ UpdateTaken => \A tx \in SentToPeer : FrameFields(tx) = FrameFields(TakenUpdate)
      ]_vars

\* a rejected receiver confirmation was emitted with its signature, and a Genesis
\* transaction is on its way to the receiver's node
C34_Witness ==
    /\ \E i \in DOMAIN rpc_sender_channel :
          /\ rpc_sender_channel[i].status = RecvAddrFailed
          /\ IsSome(rpc_sender_channel[i].recv_signature)
    /\ \E i \in DOMAIN p2p_command_channel :
          /\ p2p_command_channel[i].cmd = "SendRequest"
          /\ Decode(Unwrap(p2p_command_channel[i].data)).receiver_address = "0xB"


(***************************************************************************)
(* C35: the orchestrator holds the lock of a TxStateMachine at no          *)
(* suspension point other than the request of that lock: the handlers copy *)
(* what they need and release it before they await a channel send, a p2p   *)
(* call, a local-store call, a remote-directory call or a chain call.      *)
(***************************************************************************)
C35_NoSuspensionUnderTxnLock ==
    \A a \in awaits :
        (a.task = "orchestrator" /\ ~(a.kind = "lock" /\ a.what = "txn"))
            => "txn" \notin a.held

\* the orchestrator locked the transaction of a SenderConfirmed update, then awaited the
\* local store and the RPC-out channel
C35_Witness ==
    /\ last_status = Some(SenderConfirmed)
    /\ OrchLock("txn", {}) \in awaits
    /\ \E a \in awaits : a.kind = "call" /\ a.what = "update_failed_tx"
    /\ \E a \in awaits : a.kind = "call" /\ a.what = "send"


(***************************************************************************)
(* C36: no task requests a non-reentrant lock that it already holds: a     *)
(* task that waits for tx_processing_worker, db_worker, the p2p network    *)
(* service or the RPC-out sender is not the holder of that lock, so no     *)
(* task blocks on itself.                                                  *)
(***************************************************************************)
C36_NoTaskRequestsALockItHolds ==
    \A a \in awaits : (a.kind = "lock" /\ a.what \in ComponentLocks) => a.what \notin a.held

\* the orchestrator waits for tx_processing_worker, which it holds itself
C36_SelfDeadlock ==
    /\ orch_pc = "blocked"
    /\ OrchLock("tx_processing_worker", { "tx_processing_worker" }) \in awaits


(***************************************************************************)
(* C37: each network is broadcast through the client of its own chain:     *)
(* with the worker built as MainServiceWorker builds it, the               *)
(* send_raw_transaction call of a transaction goes to a client configured  *)
(* with the endpoint of the transaction's network, Ethereum or Bnb, never  *)
(* with that of another chain.                                             *)
(***************************************************************************)
\* the transactions the handler took to submit_tx for which submit_tx gets as far as
\* send_raw_transaction
Broadcastable ==
    { submit_calls[i] :
        i \in { j \in DOMAIN submit_calls : submit_tx_prepare(submit_calls[j]) = "Send" } }

C37_BroadcastThroughOwnChain ==
    \A tx \in Broadcastable : raw_transaction(tx).client.endpoint = Url(tx.network)

\* the part the code keeps: Ethereum goes to the Ethereum endpoint
C37_EthereumThroughOwnChain ==
    \A tx \in Broadcastable :
        tx.network = "Ethereum" => raw_transaction(tx).client.endpoint = Url("Ethereum")

\* a Bnb transaction was taken to submit_tx, whose client has the endpoint of Solana
C37_BnbThroughSolanaEndpoint ==
    \E tx \in Broadcastable :
        /\ tx.network = "Bnb"
        /\ raw_transaction(tx).client = bnb_client
        /\ bnb_client.endpoint = Url("Solana")


(***************************************************************************)
(* C38: in every transaction the orchestrator emits on the RPC-out         *)
(* channel, tx_hash is set by the orchestrator only together with status   *)
(* TxSubmissionPassed and only for a transaction it took to submit_tx; a   *)
(* success row is written to the history only by the handler step that     *)
(* emitted the transaction with TxSubmissionPassed and that hash.          *)
(***************************************************************************)
NewRows == SubSeq(tx_history', Len(tx_history) + 1, Len(tx_history'))

====
